---- MODULE Spec2Model ----
(***************************************************************************)
(* Model of the Kafka client transport of akademie                         *)
(* (src/src/kafka/client.rs): KafkaClientCodec (length-delimited frame     *)
(* codec with the pending request table), CorrelationStore (tag store of   *)
(* the tokio-tower multiplexer), the KafkaClientError conversion and the   *)
(* multiplexed client assembled by DisconnectedKafkaClient::connect.       *)
(***************************************************************************)
EXTENDS Integers, Sequences, FiniteSets, TLC

VARIABLES
    id_gen,           \* CorrelationStore.id_gen : AtomicI32
    correlation_ids,  \* CorrelationStore.correlation_ids : HashSet<i32>
    requests,         \* KafkaClientCodec.requests : HashMap<i32, RequestHeader>
    lc_state,         \* decode state of KafkaClientCodec.length_codec
    src,              \* read buffer handed to decode (bytes)
    wire,             \* bytes the broker has written, not yet read into src
    dst,              \* write buffer filled by encode (bytes)
    call,             \* the logical calls issued against the client
    decoded,          \* item returned by decode, not yet given to finish_tag
    worker,           \* state of the multiplexer driving the transport
    pending,          \* VecDequePendingStore: the calls awaiting a tagged response
    eaten,            \* bytes of the current inbound frame already consumed
    broker_sent,      \* number of response frames the broker has written
    short_reads,      \* number of short reads of the frame on the wire so far
    responded,        \* ids for which decode took a response frame
    client            \* DisconnectedKafkaClient::connect: where it is, what it returned

vars == << id_gen, correlation_ids, requests, lc_state, src, wire, dst, call,
           decoded, worker, pending, eaten, broker_sent, short_reads, responded,
           client >>

-----------------------------------------------------------------------------
(* Bounds of the model *)

NCalls == 2          \* logical calls issued on the connection
MaxResponses == 2    \* response frames the broker writes
ReadChunk == 3       \* size of a short read of the socket
MaxShortReads == 2   \* short reads of the socket per response frame

(* Program constants *)

MaxI32 == 2147483647
MinI32 == -MaxI32 - 1
LengthFieldLength == 4

Calls == 1 .. NCalls

\* id_gen starts at 0 (AtomicI32::default)
StartIds == {0}

\* id_gen on a connection on which i32::MAX requests were tagged and answered
WrapStartIds == {MaxI32}

Supported == {"Metadata", "ApiVersions", "LeaderAndIsr", "CreateTopics"}
Unsupported == {"Produce"}
Kinds == Supported \cup Unsupported

\* versions of the requests issued: Metadata at version 12, the others at 3
VersionsOf(k) == IF k = "Metadata" THEN {12} ELSE {3}

\* an i16 that is the discriminant of no ApiKey
NoApiKey == 255

-----------------------------------------------------------------------------
(* Wire representation *)

\* ApiKey discriminants of kafka_protocol, as written into a header
KeyCode(k) ==
    CASE k = "Produce" -> 0
      [] k = "Metadata" -> 3
      [] k = "LeaderAndIsr" -> 4
      [] k = "ApiVersions" -> 18
      [] k = "CreateTopics" -> 19

\* ApiKey::try_from(i16): the keys that exist; anything else is an Err
KeyOfCode(n) ==
    CASE n = 0 -> "Produce"
      [] n = 3 -> "Metadata"
      [] n = 4 -> "LeaderAndIsr"
      [] n = 18 -> "ApiVersions"
      [] n = 19 -> "CreateTopics"
      [] OTHER -> "NoSuchKey"

\* XResponse::header_version(version) of kafka_protocol: the version of the
\* response header that precedes a response of type k at the given version
ResponseHeaderVersion(k, version) ==
    CASE k = "Metadata" -> IF version >= 9 THEN 1 ELSE 0
      [] k = "LeaderAndIsr" -> IF version >= 4 THEN 1 ELSE 0
      [] k = "CreateTopics" -> IF version >= 5 THEN 1 ELSE 0
      [] OTHER -> 0

\* fetch_add(1) on an AtomicI32 wraps around
WrappingInc(x) == IF x = MaxI32 THEN MinI32 ELSE x + 1

\* big-endian two's complement bytes of an i32
I32Bytes(x) ==
    LET u == IF x >= 0 THEN x ELSE x - MinI32
        top == (u \div 16777216) + (IF x < 0 THEN 128 ELSE 0)
    IN << top, (u \div 65536) % 256, (u \div 256) % 256, u % 256 >>

I32OfBytes(b) ==
    LET low == (b[2] * 65536) + (b[3] * 256) + b[4]
    IN IF b[1] >= 128
          THEN MinI32 + (((b[1] - 128) * 16777216) + low)
          ELSE (b[1] * 16777216) + low

I16Bytes(x) == << (x \div 256) % 256, x % 256 >>
I16OfBytes(b) == (b[1] * 256) + b[2]

Take(s, n) == SubSeq(s, 1, n)
Drop(s, n) == SubSeq(s, n + 1, Len(s))

\* LengthDelimitedCodec::encode: 4-byte big-endian length, then the payload
Frame(payload) == I32Bytes(Len(payload)) \o payload

\* the payloads of the complete frames of a byte stream, in order
RECURSIVE Payloads(_)
Payloads(s) ==
    IF Len(s) < LengthFieldLength THEN << >>
    ELSE LET n == I32OfBytes(Take(s, LengthFieldLength))
             rest == Drop(s, LengthFieldLength)
         IN IF Len(rest) < n THEN << >>
            ELSE << Take(rest, n) >> \o Payloads(Drop(rest, n))

-----------------------------------------------------------------------------
(* Initial state: DisconnectedKafkaClient::new; the codec and the tag store *)
(* as KafkaClientCodec::new and CorrelationStore::default build them       *)

NoItem == [some |-> FALSE, correlation_id |-> 0, kind |-> "none", version |-> 0]
NoHeader == [request_api_key |-> 0, request_api_version |-> 0, correlation_id |-> 0]

Init ==
    /\ id_gen \in StartIds
    /\ correlation_ids = {}
    /\ requests = << >>
    /\ lc_state = [state |-> "Head", n |-> 0]
    /\ src = << >>
    /\ wire = << >>
    /\ dst = << >>
    /\ call = [c \in Calls |-> [pc |-> "idle", tagged |-> FALSE, tag |-> 0,
                                 kind |-> "none", header |-> NoHeader,
                                 fin |-> 0, resp |-> NoItem, err |-> "none"]]
    /\ decoded = NoItem
    /\ worker = "none"
    /\ pending = << >>
    /\ eaten = 0
    /\ broker_sent = 0
    /\ responded = {}
    /\ short_reads = 0
    /\ client = [pc |-> "new", tcp |-> "none", result |-> "none", ready_checks |-> 0]

-----------------------------------------------------------------------------
(* DisconnectedKafkaClient::connect *)

\* The connection is opened (TcpStream::connect(..).await.unwrap(): an Err is a
\* panic), the multiplexed client is built over the framed stream and polled
\* for readiness once (ready(..).await.unwrap(): a fresh client is ready), and
\* Ok(client) is returned.
Connect ==
    /\ client.pc = "new"
    /\ \E tcp \in {"Ok", "Err"} :
          IF tcp = "Ok"
             THEN /\ client' = [pc |-> "returned", tcp |-> tcp, result |-> "Ok",
                                 ready_checks |-> 1]
                  /\ worker' = "running"
             ELSE /\ client' = [pc |-> "panicked", tcp |-> tcp, result |-> "none",
                                 ready_checks |-> 0]
                  /\ worker' = worker
    /\ UNCHANGED << id_gen, correlation_ids, requests, lc_state, src, wire, dst,
                    call, decoded, pending, eaten, broker_sent, short_reads, responded >>

-----------------------------------------------------------------------------
(* CorrelationStore::assign_tag *)

\* mutant: the counter is read but the increment is lost
assign_tag_lost_update(gen) == [tag |-> gen, next |-> gen]

\* id_gen.fetch_add(1, SeqCst): the tag is the old value, the counter moves on
assign_tag(gen) == [tag |-> gen, next |-> WrappingInc(gen)]

\* Call c is submitted and the multiplexer tags its request: the tag joins the
\* in-flight set and is stamped into the request header.
AssignTag(c) ==
    /\ worker = "running"
    /\ call[c].pc = "idle"
    /\ \A b \in Calls : b < c => call[b].pc # "idle"   \* calls are numbered as submitted
    /\ LET t == assign_tag(id_gen)
       IN /\ id_gen' = t.next
          /\ correlation_ids' = correlation_ids \cup {t.tag}
          /\ call' = [call EXCEPT ![c].pc = "tagged", ![c].tagged = TRUE,
                                   ![c].tag = t.tag,
                                   ![c].header.correlation_id = t.tag]
    /\ UNCHANGED << requests, lc_state, src, wire, dst, decoded, worker, pending,
                    eaten, broker_sent, short_reads, responded, client >>

-----------------------------------------------------------------------------
(* KafkaClientCodec::encode *)

\* RequestHeader::encode: api key, api version, correlation id
HeaderBytes(h) ==
    I16Bytes(h.request_api_key) \o I16Bytes(h.request_api_version)
        \o I32Bytes(h.correlation_id)

\* the key a caller writes into the header of a request of variant k: the key
\* of the variant; the header is built apart from the request, so that of a
\* Metadata request may also carry the key of an unsupported api or no key
HeaderCodes(k) ==
    IF k = "Metadata" THEN {KeyCode(k), KeyCode("Produce"), NoApiKey}
                      ELSE {KeyCode(k)}

\* encode_request: header then body for the four supported variants,
\* Err(EncodeError) for every other variant
encode_request(h, k) ==
    IF k \in Supported
       THEN [ok |-> TRUE, bytes |-> HeaderBytes(h) \o << KeyCode(k) >>]
       ELSE [ok |-> FALSE, bytes |-> << >>]

\* mutant: the header is registered under the id after its own
Insert_next_id(tbl, h) ==
    [id \in DOMAIN tbl \cup {WrappingInc(h.correlation_id)} |->
        IF id = WrappingInc(h.correlation_id) THEN h ELSE tbl[id]]

\* mutant: the header is registered under its api key
Insert_keyed_by_api_key(tbl, h) ==
    [id \in DOMAIN tbl \cup {h.request_api_key} |->
        IF id = h.request_api_key THEN h ELSE tbl[id]]

\* requests.insert(header.correlation_id, header.clone())
Insert(tbl, h) ==
    [id \in DOMAIN tbl \cup {h.correlation_id} |->
        IF id = h.correlation_id THEN h ELSE tbl[id]]

\* The multiplexer hands the tagged request of call c to the framed transport
\* (start_send): the header is registered, the request is encoded and the frame
\* appended to the write buffer; on Ok the call joins the pending store, on Err
\* the multiplexer ends with the transport error.
\* The request of call c is of some variant k, its header filled in by the caller.
Encode(c) ==
    /\ worker = "running"
    /\ call[c].pc = "tagged"
    /\ \E k \in Kinds : \E v \in VersionsOf(k), code \in HeaderCodes(k) :
       LET h == [call[c].header EXCEPT !.request_api_key = code,
                                       !.request_api_version = v]
           r == encode_request(h, k)
       IN /\ requests' = Insert(requests, h)
          /\ IF r.ok
                THEN /\ dst' = dst \o Frame(r.bytes)
                     /\ call' = [call EXCEPT ![c].pc = "sent", ![c].kind = k,
                                              ![c].header = h]
                     /\ pending' = Append(pending, [tag |-> call[c].tag, c |-> c])
                     /\ worker' = worker
                ELSE /\ dst' = dst
                     /\ call' = [call EXCEPT ![c].pc = "rejected", ![c].kind = k,
                                              ![c].header = h]
                     /\ pending' = pending
                     /\ worker' = "failed"
    /\ UNCHANGED << id_gen, correlation_ids, lc_state, src, wire, decoded, eaten,
                    broker_sent, short_reads, responded, client >>

-----------------------------------------------------------------------------
(* The peer and the socket *)

RequestId(payload) == I32OfBytes(SubSeq(payload, 5, 8))
RequestKey(payload) == I16OfBytes(SubSeq(payload, 1, 2))
RequestVersion(payload) == I16OfBytes(SubSeq(payload, 3, 4))

\* a response body: two bytes, the key of the response type and the version
\* whose layout it is written in; the decoder of that type at that version
\* accepts it and no other does
ResponseBody(code, version) == << code, version >>

\* a response frame: the response header (correlation id and, from header
\* version 1 on, the tagged fields: none, one byte) and the body
ResponseFrame(id, hv, body) ==
    Frame(I32Bytes(id) \o (IF hv >= 1 THEN << 0 >> ELSE << >>) \o body)

\* the response a broker of the protocol writes for the request frame p
ValidResponse(p) ==
    ResponseFrame(RequestId(p),
                  ResponseHeaderVersion(KeyOfCode(RequestKey(p)), RequestVersion(p)),
                  ResponseBody(RequestKey(p), RequestVersion(p)))

\* The broker answers one of the request frames written so far, in any order
\* and possibly twice, with a response header of version 0 or 1 and a body of
\* the request's type laid out at the request's version or at version 0.
\* Response frames follow one another: the next is written once the bytes of
\* the previous one have been read and decoded.
BrokerRespond ==
    /\ worker = "running"
    /\ wire = << >>
    /\ src = << >>
    /\ broker_sent < MaxResponses
    /\ \E i \in 1 .. Len(Payloads(dst)), hv \in {0, 1} :
          LET p == Payloads(dst)[i]
          IN \E bv \in {RequestVersion(p), 0} :
                wire' = wire \o ResponseFrame(RequestId(p), hv,
                                              ResponseBody(RequestKey(p), bv))
    /\ broker_sent' = broker_sent + 1
    /\ UNCHANGED << id_gen, correlation_ids, requests, lc_state, src, dst, call,
                    decoded, worker, pending, eaten, short_reads, responded, client >>

\* A read of the socket moves bytes on the wire into the read buffer: all of
\* them, or a short read of ReadChunk bytes (at most MaxShortReads per frame).
ReadSizes ==
    {Len(wire)} \cup (IF short_reads < MaxShortReads THEN {ReadChunk} ELSE {})

Receive ==
    /\ worker = "running"
    /\ \E k \in ReadSizes :
          /\ 1 <= k /\ k <= Len(wire)
          /\ src' = src \o Take(wire, k)
          /\ wire' = Drop(wire, k)
          /\ short_reads' = IF k < Len(wire) THEN short_reads + 1 ELSE 0
    /\ UNCHANGED << id_gen, correlation_ids, requests, lc_state, dst, call,
                    decoded, worker, pending, eaten, broker_sent, responded, client >>

\* The socket fails or the peer disconnects: the bytes on the wire are lost and
\* the multiplexer ends.
ConnFail ==
    /\ worker = "running"
    /\ ~decoded.some
    /\ worker' = "disconnected"
    /\ wire' = << >>
    /\ UNCHANGED << id_gen, correlation_ids, requests, lc_state, src, dst,
                    call, decoded, pending, eaten, broker_sent, short_reads, responded, client >>

-----------------------------------------------------------------------------
(* KafkaClientCodec::decode *)

\* mutant: the payload is split off without waiting for all of its bytes
length_codec_decode_eager(lc, buf) ==
    IF Len(buf) < LengthFieldLength
       THEN [lc |-> lc, buf |-> buf, some |-> FALSE, err |-> FALSE, frame |-> << >>,
             need |-> -1]
       ELSE LET n == I32OfBytes(Take(buf, LengthFieldLength))
                data == Drop(buf, LengthFieldLength)
                k == IF Len(data) < n THEN Len(data) ELSE n
            IN [lc |-> [state |-> "Head", n |-> 0], buf |-> Drop(data, k),
                some |-> TRUE, err |-> FALSE, frame |-> Take(data, k), need |-> n]

\* LengthDelimitedCodec::decode with a 4-byte length field. In state Head it
\* waits for the whole prefix, reads the length, rejects a length above
\* max_frame_length (i32::MAX: top bit set) and advances the buffer past the
\* prefix, remembering the length in state Data(n); in state Data(n) it waits
\* for n bytes and splits them off.
length_codec_decode(lc, buf) ==
    IF lc.state = "Head" /\ Len(buf) < LengthFieldLength
       THEN [lc |-> lc, buf |-> buf, some |-> FALSE, err |-> FALSE, frame |-> << >>,
             need |-> -1]
    ELSE IF lc.state = "Head" /\ buf[1] >= 128
       THEN [lc |-> lc, buf |-> buf, some |-> FALSE, err |-> TRUE, frame |-> << >>,
             need |-> -1]
    ELSE
       LET n == IF lc.state = "Head" THEN I32OfBytes(Take(buf, LengthFieldLength))
                                     ELSE lc.n
           data == IF lc.state = "Head" THEN Drop(buf, LengthFieldLength) ELSE buf
       IN IF Len(data) < n
             THEN [lc |-> [state |-> "Data", n |-> n], buf |-> data, some |-> FALSE,
                   err |-> FALSE, frame |-> << >>, need |-> n]
             ELSE [lc |-> [state |-> "Head", n |-> 0], buf |-> Drop(data, n),
                   some |-> TRUE, err |-> FALSE, frame |-> Take(data, n), need |-> n]

\* ResponseHeader::decode(bytes, 1): an i32 correlation id, then the tagged
\* fields (one byte when there are none)
response_header_decode(bytes) ==
    IF Len(bytes) >= 5 /\ bytes[5] = 0
       THEN [ok |-> TRUE, correlation_id |-> I32OfBytes(Take(bytes, 4)),
             rest |-> Drop(bytes, 5)]
       ELSE [ok |-> FALSE, correlation_id |-> 0, rest |-> << >>]

\* the version decode_response hands to XResponse::decode: the version given
\* for Metadata, XResponse::header_version(version) for the three other types
BodyVersion(api_key, version) ==
    IF api_key = "Metadata" THEN version
                            ELSE ResponseHeaderVersion(api_key, version)

\* decode_response: the response type is chosen by the api key alone and its
\* body decoded at BodyVersion; Err(DecodeError) for any other key and for a
\* body that does not decode as that type at that version
decode_response(bytes, api_key, version) ==
    IF /\ api_key \in Supported
       /\ bytes = ResponseBody(KeyCode(api_key), BodyVersion(api_key, version))
       THEN [ok |-> TRUE, kind |-> api_key, version |-> BodyVersion(api_key, version)]
       ELSE [ok |-> FALSE, kind |-> "none", version |-> 0]

\* mutant: the entry is looked up but stays in the table
Remove_lookup_only(tbl, id) == tbl

\* requests.remove(&id)
Remove(tbl, id) == [x \in DOMAIN tbl \ {id} |-> tbl[x]]

\* mutant: the entry is taken out of the table only once the body has decoded
decode_remove_on_success(lc, buf, tbl) ==
    LET f == length_codec_decode(lc, buf)
        base == [lc |-> f.lc, src |-> f.buf, requests |-> tbl, took |-> f.some,
                 need |-> f.need, id |-> 0, result |-> "None", item |-> NoItem,
                 removed |-> FALSE]
        h == response_header_decode(f.frame)
        rh == tbl[h.correlation_id]
        key == KeyOfCode(rh.request_api_key)
        r == decode_response(h.rest, key, rh.request_api_version)
        found == [base EXCEPT !.id = h.correlation_id]
    IN IF f.err THEN [base EXCEPT !.result = "IoError"]
       ELSE IF ~f.some THEN base
       ELSE IF ~h.ok THEN [base EXCEPT !.result = "DecodeError"]
       ELSE IF h.correlation_id \notin DOMAIN tbl THEN [found EXCEPT !.result = "Panic"]
       ELSE IF key = "NoSuchKey" THEN [found EXCEPT !.result = "Panic"]
       ELSE IF ~r.ok THEN [found EXCEPT !.result = "DecodeError"]
       ELSE [found EXCEPT !.requests = Remove(tbl, h.correlation_id),
                          !.removed = TRUE, !.result = "Item",
                          !.item = [some |-> TRUE, correlation_id |-> h.correlation_id,
                                    kind |-> r.kind, version |-> r.version]]

\* decode as a function of the codec state, the buffer and the table
decode(lc, buf, tbl) ==
    LET f == length_codec_decode(lc, buf)
        base == [lc |-> f.lc, src |-> f.buf, requests |-> tbl, took |-> f.some,
                 need |-> f.need, id |-> 0, result |-> "None", item |-> NoItem,
                 removed |-> FALSE]
    IN IF f.err THEN [base EXCEPT !.result = "IoError"]
       ELSE IF ~f.some THEN base
       ELSE
         LET h == response_header_decode(f.frame)
         IN IF ~h.ok THEN [base EXCEPT !.result = "DecodeError"]
            ELSE IF h.correlation_id \notin DOMAIN tbl
              \* .remove(..).unwrap() on None
              THEN [base EXCEPT !.id = h.correlation_id, !.result = "Panic"]
            ELSE
              LET rh == tbl[h.correlation_id]
                  left == Remove(tbl, h.correlation_id)
                  key == KeyOfCode(rh.request_api_key)
                  r == decode_response(h.rest, key, rh.request_api_version)
                  gone == [base EXCEPT !.id = h.correlation_id, !.requests = left,
                                       !.removed = TRUE]
              IN IF key = "NoSuchKey"
                    \* ApiKey::try_from(..).unwrap() on Err
                    THEN [gone EXCEPT !.result = "Panic"]
                 ELSE IF ~r.ok THEN [gone EXCEPT !.result = "DecodeError"]
                 ELSE [gone EXCEPT !.result = "Item",
                                   !.item = [some |-> TRUE,
                                             correlation_id |-> h.correlation_id,
                                             kind |-> r.kind,
                                             version |-> r.version]]

\* The framed transport is polled for the next item (poll_next): decode runs on
\* the read buffer. An item waits for finish_tag; an Err ends the multiplexer
\* with the transport error; a panic kills it.
Decode ==
    /\ worker = "running"
    /\ ~decoded.some
    /\ LET d == decode(lc_state, src, requests)
           used == Len(src) - Len(d.src)
       IN /\ lc_state' = d.lc
          /\ src' = d.src
          /\ requests' = d.requests
          /\ decoded' = d.item
          /\ responded' = IF d.removed THEN responded \cup {d.id} ELSE responded
          /\ eaten' = IF d.took THEN 0 ELSE eaten + used
          /\ worker' = CASE d.result \in {"None", "Item"} -> worker
                          [] d.result = "Panic" -> "panicked"
                          [] OTHER -> "failed"
    /\ UNCHANGED << id_gen, correlation_ids, wire, dst, call, pending, broker_sent,
                    short_reads, client >>

-----------------------------------------------------------------------------
(* CorrelationStore::finish_tag *)

\* mutant: responses are taken to arrive in the order the requests were sent
finish_tag_fifo(response) ==
    IF pending # << >> THEN pending[1].tag ELSE response.correlation_id

\* the tag of a response is the correlation id of its header
finish_tag(response) == response.correlation_id

\* VecDequePendingStore::completed: the first pending call sent under the tag
PendingIndex(tag) ==
    LET hits == {i \in 1 .. Len(pending) : pending[i].tag = tag}
    IN IF hits = {} THEN 0 ELSE CHOOSE i \in hits : \A j \in hits : i <= j

RemoveAt(s, i) == SubSeq(s, 1, i - 1) \o SubSeq(s, i + 1, Len(s))

\* The multiplexer retires the tag of the decoded item and resolves the pending
\* call stored under that tag with the item.
FinishTag ==
    /\ worker = "running"
    /\ decoded.some
    /\ LET tag == finish_tag(decoded)
           i == PendingIndex(tag)
       IN /\ correlation_ids' = correlation_ids \ {tag}
          /\ IF i = 0
                THEN \* no call is stored under the tag: the multiplexer panics
                     /\ worker' = "panicked"
                     /\ UNCHANGED << call, pending >>
                ELSE /\ call' = IF call[pending[i].c].pc = "abandoned"
                                   THEN call   \* nobody receives the response
                                   ELSE [call EXCEPT ![pending[i].c].pc = "done",
                                                     ![pending[i].c].fin = tag,
                                                     ![pending[i].c].resp = decoded]
                     /\ pending' = RemoveAt(pending, i)
                     /\ worker' = worker
    /\ decoded' = NoItem
    /\ UNCHANGED << id_gen, requests, lc_state, src, wire, dst, eaten, broker_sent,
                    short_reads, responded, client >>

-----------------------------------------------------------------------------
(* impl From<tokio_tower::Error<..>> for KafkaClientError *)

\* println!("{}", value); todo!() : every internal error panics
KafkaClientErrorFrom(value) == "panic"

\* Once the multiplexer has ended, a call that has not been resolved gets the
\* internal error, which is converted into the client's error type.
Unresolved(c) == call[c].pc \in {"idle", "tagged", "sent", "rejected"}

SurfaceError(c) ==
    /\ worker \notin {"none", "running"}
    /\ Unresolved(c)
    /\ \A b \in Calls : b < c => ~Unresolved(b)   \* callers are polled in order
    /\ LET e == KafkaClientErrorFrom(worker)
       IN call' = [call EXCEPT ![c].pc = IF e = "panic" THEN "aborted" ELSE "failed",
                                ![c].err = e]
    /\ UNCHANGED << id_gen, correlation_ids, requests, lc_state, src, wire, dst,
                    decoded, worker, pending, eaten, broker_sent, short_reads, responded, client >>

-----------------------------------------------------------------------------
(* A caller gives up *)

\* The caller of call c drops the future of a request that was sent, before
\* its response arrives. Neither CorrelationStore nor KafkaClientCodec has an
\* operation for this: the tag store and the table are not touched, and the
\* entry of the pending store waits for the response.
Abandon(c) ==
    /\ worker = "running"
    /\ call[c].pc = "sent"
    /\ call' = [call EXCEPT ![c].pc = "abandoned"]
    /\ UNCHANGED << id_gen, correlation_ids, requests, lc_state, src, wire, dst,
                    decoded, worker, pending, eaten, broker_sent, short_reads,
                    responded, client >>

-----------------------------------------------------------------------------

\* the steps of a connected client
Serve ==
    \/ \E c \in Calls : AssignTag(c)
    \/ \E c \in Calls : Encode(c)
    \/ BrokerRespond
    \/ Receive
    \/ ConnFail
    \/ Decode
    \/ FinishTag
    \/ \E c \in Calls : SurfaceError(c)

Next ==
    \/ Connect
    \/ Serve

Spec == Init /\ [][Next]_vars

\* a connected client whose earlier requests were all answered, the counter
\* at i32::MAX
InitWrap ==
    /\ id_gen \in WrapStartIds
    /\ correlation_ids = {}
    /\ requests = << >>
    /\ lc_state = [state |-> "Head", n |-> 0]
    /\ src = << >>
    /\ wire = << >>
    /\ dst = << >>
    /\ call = [c \in Calls |-> [pc |-> "idle", tagged |-> FALSE, tag |-> 0,
                                 kind |-> "none", header |-> NoHeader,
                                 fin |-> 0, resp |-> NoItem, err |-> "none"]]
    /\ decoded = NoItem
    /\ worker = "running"
    /\ pending = << >>
    /\ eaten = 0
    /\ broker_sent = 0
    /\ responded = {}
    /\ short_reads = 0
    /\ client = [pc |-> "returned", tcp |-> "Ok", result |-> "Ok", ready_checks |-> 1]

SpecWrap == InitWrap /\ [][Serve]_vars

\* the client with callers that may give up
NextCancel ==
    \/ Next
    \/ \E c \in Calls : Abandon(c)

SpecCancel == Init /\ [][NextCancel]_vars

-----------------------------------------------------------------------------
(* The client against a broker that answers every request *)

\* connect finds the broker listening
ConnectOk == Connect /\ client'.tcp = "Ok"

\* the request of call c is of a supported variant and its header carries the
\* key of that variant
EncodeSupported(c) ==
    /\ Encode(c)
    /\ call'[c].kind \in Supported
    /\ call'[c].header.request_api_key = KeyCode(call'[c].kind)

\* the broker answers the request frames one by one in the order written, each
\* with the response the protocol prescribes for it
BrokerAnswers ==
    /\ BrokerRespond
    /\ broker_sent < Len(Payloads(dst))
    /\ wire' = ValidResponse(Payloads(dst)[broker_sent + 1])

NextLive ==
    \/ ConnectOk
    \/ \E c \in Calls : AssignTag(c)
    \/ \E c \in Calls : EncodeSupported(c)
    \/ BrokerAnswers
    \/ Receive
    \/ Decode
    \/ FinishTag
    \/ \E c \in Calls : SurfaceError(c)

\* the runtime keeps polling the tasks: a step that can be taken is taken
LiveSpec == Init /\ [][NextLive]_vars /\ WF_vars(NextLive)

-----------------------------------------------------------------------------
(* Vocabulary of the properties *)

Tagged == {c \in Calls : call[c].tagged}

\* position of the request frame of call c in the byte stream written (0: none)
SentIndex(c) ==
    LET P == Payloads(dst)
        hits == {i \in 1 .. Len(P) : RequestId(P[i]) = call[c].tag}
    IN IF call[c].tagged /\ hits # {}
          THEN CHOOSE i \in hits : \A j \in hits : i <= j
          ELSE 0

\* ids of the request frames written to the connection
EncodedIds == {RequestId(Payloads(dst)[i]) : i \in 1 .. Len(Payloads(dst))}

\* the frame at the head of the inbound stream: its declared payload length
\* (-1 while the prefix is incomplete), whether all of it is buffered, its payload
DeclaredLen ==
    IF lc_state.state = "Data" THEN lc_state.n
    ELSE IF Len(src) >= LengthFieldLength
            THEN I32OfBytes(Take(src, LengthFieldLength))
            ELSE -1

Buffered == IF lc_state.state = "Data" THEN Len(src) ELSE Len(src) - LengthFieldLength

FrameReady == DeclaredLen >= 0 /\ Buffered >= DeclaredLen

ReadyPayload ==
    IF lc_state.state = "Data" THEN Take(src, DeclaredLen)
    ELSE Take(Drop(src, LengthFieldLength), DeclaredLen)

ReadyId == I32OfBytes(Take(ReadyPayload, 4))

\* a step of decode that takes bytes from the read buffer
Consumes == worker = "running" /\ ~decoded.some /\ Len(src') < Len(src)

PublicErrorKinds ==
    {"EncodeError", "DecodeError", "UnknownCorrelation", "TransportError", "SetupError"}

-----------------------------------------------------------------------------
(* Properties *)

\* C1: whenever a decoded response is handed over, the call it resolves is the
\* one whose assigned correlation id is the id in the response header, and every
\* other call is left as it was (so the response of a later call arriving first
\* resolves the later call and leaves the earlier one pending).
C1_ResponseGoesToItsCall ==
    [][ (decoded.some /\ ~decoded'.some) =>
          \A c \in Calls :
             IF call[c].pc = "sent" /\ call[c].tag = decoded.correlation_id
                THEN call'[c].pc = "done" /\ call'[c].resp = decoded
                ELSE call'[c] = call[c] ]_vars

\* C1 witness: a call whose frame was written second is resolved while the call
\* whose frame was written first is still pending.
C1_OutOfOrderWitness ==
    \E a, b \in Calls :
       /\ SentIndex(a) > 0 /\ SentIndex(a) < SentIndex(b)
       /\ call[a].pc = "sent"
       /\ call[b].pc = "done"

\* C2 (as claimed): encoding a request of an unsupported variant returns
\* EncodeError and leaves the pending request table exactly as it was.
C2_UnsupportedEncodeLeavesTable ==
    [][ \A c \in Calls :
          (call[c].pc = "tagged" /\ call'[c].pc # "tagged"
              /\ call'[c].kind \in Unsupported)
          => (call'[c].pc = "rejected" /\ requests' = requests) ]_vars

\* C3 (as claimed): decoding a complete frame whose correlation id has no entry
\* in the pending table returns an error value, without a panic, and leaves the
\* table as it was.
C3_UnknownCorrelationIsAnError ==
    [][ (Consumes /\ FrameReady /\ ReadyId \notin DOMAIN requests)
          => (worker' = "failed" /\ requests' = requests) ]_vars

\* C4 (as claimed): in every reachable state the in-flight id set equals the key
\* set of the pending request table.
C4_InFlightEqualsPendingKeys == correlation_ids = DOMAIN requests

\* C5: as long as no response has arrived, the calls tagged so far hold pairwise
\* distinct correlation ids and the in-flight set is exactly the set of their
\* ids, one member per call.
C5_ConcurrentTagsDistinct ==
    responded = {} =>
       /\ \A a, b \in Tagged : a # b => call[a].tag # call[b].tag
       /\ correlation_ids = {call[c].tag : c \in Tagged}
       /\ Cardinality(correlation_ids) = Cardinality(Tagged)

\* C5 witness: every call has been tagged and no response has arrived.
C5_AllTaggedWitness == responded = {} /\ Tagged = Calls /\ Cardinality(Calls) >= 2

\* C6 (as claimed): after a disconnect, a call that had an entry in the pending
\* table and is no longer suspended was resolved with TransportError.
C6_DisconnectResolvesWithTransportError ==
    \A c \in Calls :
       (worker = "disconnected" /\ call[c].tagged
           /\ call[c].tag \in DOMAIN requests /\ call[c].pc \notin {"sent", "abandoned"})
       => (call[c].pc = "failed" /\ call[c].err = "TransportError")

\* C7 (as claimed): no conversion of an internal error aborts, and every error
\* a call is resolved with is one of the public error kinds.
C7_ErrorConversionIsTotal ==
    \A c \in Calls :
       /\ call[c].pc # "aborted"
       /\ call[c].pc = "failed" => call[c].err \in PublicErrorKinds

\* C8: for a call resolved by a round trip (assign_tag, encode, the broker,
\* decode, finish_tag) of any supported variant, the id finish_tag returned and
\* the id in the decoded response header are the id assign_tag returned, and
\* that id is in neither the in-flight set nor the pending table.
C8_RoundTripReturnsAssignedId ==
    \A c \in Calls :
       call[c].pc = "done" =>
          /\ call[c].kind \in Supported
          /\ call[c].fin = call[c].tag
          /\ call[c].resp.correlation_id = call[c].tag
          /\ call[c].tag \notin correlation_ids
          /\ call[c].tag \notin DOMAIN requests

\* C8 witness: two calls of different variants have completed the round trip.
C8_RoundTripWitness ==
    \E a, b \in Calls :
       /\ call[a].pc = "done" /\ call[b].pc = "done"
       /\ call[a].kind # call[b].kind

C10_TableIsSentUnanswered ==
    /\ DOMAIN requests = EncodedIds \ responded
    /\ \A a, b \in Tagged :
          (a # b /\ call[a].pc \in {"tagged", "sent"} /\ call[b].pc \in {"tagged", "sent"})
          => call[a].tag # call[b].tag

\* C11 (as claimed): each id assign_tag returns is greater than every id it
\* returned before and is not in the in-flight set, also when the counter is
\* at i32::MAX.
C11_TagsIncreaseAndFresh ==
    [][ \A c \in Calls :
          (call[c].pc = "idle" /\ call'[c].pc = "tagged")
          => /\ \A b \in Tagged : call[b].tag < call'[c].tag
             /\ call'[c].tag \notin correlation_ids ]_vars

\* the response header of the frame at the head of the inbound stream decodes
\* and its correlation id has an entry in the pending table
ReadyEntryFound ==
    /\ FrameReady
    /\ response_header_decode(ReadyPayload).ok
    /\ ReadyId \in DOMAIN requests

\* the api key recorded in the entry of the frame at the head of the stream
ReadyKey == KeyOfCode(requests[ReadyId].request_api_key)

\* C12 (as claimed): decoding a complete frame whose pending entry records an
\* api key outside the four supported ones, an i16 that is no api key included,
\* returns an error value and does not panic.
C12_UnsupportedKeyIsAnError ==
    [][ (Consumes /\ ReadyEntryFound /\ ReadyKey \notin Supported)
          => worker' = "failed" ]_vars

\* C13 (as claimed): when opening the connection fails, connect returns a
\* SetupError result and does not panic; when it succeeds, the client it
\* returns has passed one readiness check.
C13_ConnectFailureIsSetupError ==
    /\ client.tcp = "Err" => (client.pc = "returned" /\ client.result = "SetupError")
    /\ client.tcp = "Ok" => (client.pc = "returned" /\ client.result = "Ok"
                               /\ client.ready_checks = 1)

\* C14 (as claimed): when the broker answers every request sent with the valid
\* response frame carrying its correlation id, every call is eventually
\* resolved with the decoded response of its request, and from then on the
\* in-flight set and the pending table are empty.
C14_ValidResponsesResolveEveryCall ==
    <>[](/\ \A c \in Calls : call[c].pc = "done" /\ call[c].resp.kind = call[c].kind
         /\ correlation_ids = {}
         /\ DOMAIN requests = {})

\* C15: the steps of a request come in the order assign_tag, insertion into the
\* pending table at encode, removal at decode, finish_tag. An id enters the
\* in-flight set while it has no entry; encode registers the request under the
\* id assign_tag stamped into its header, and a frame enters the write buffer
\* only with its entry in the table; an entry is removed only for an id
\* in flight whose frame was written; an id leaves the in-flight set only after
\* decode removed its entry.
C15_StepsInOrder ==
    [][ /\ \A id \in correlation_ids' \ correlation_ids :
             id \notin DOMAIN requests /\ id \notin EncodedIds
        /\ \A c \in Calls :
             (call[c].pc = "tagged" /\ call'[c].pc \in {"sent", "rejected"})
             => /\ call[c].tag \in correlation_ids
                /\ call[c].tag \notin EncodedIds
                /\ DOMAIN requests' = DOMAIN requests \cup {call[c].tag}
                /\ requests'[call[c].tag].correlation_id = call[c].tag
        /\ dst' # dst
           => \E c \in Calls :
                 /\ call[c].pc = "tagged" /\ call'[c].pc = "sent"
                 /\ call[c].tag \in DOMAIN requests'
                 /\ Take(dst', Len(dst)) = dst
                 /\ RequestId(Drop(dst', Len(dst) + LengthFieldLength)) = call[c].tag
        /\ \A id \in DOMAIN requests \ DOMAIN requests' :
             id \in correlation_ids /\ id \in EncodedIds /\ id \in responded'
        /\ \A id \in correlation_ids \ correlation_ids' :
             id \in responded /\ id \notin DOMAIN requests ]_vars

\* C15 witness: a call has gone through the four steps.
C15_AllStepsWitness ==
    \E c \in Calls :
       /\ call[c].pc = "done"
       /\ call[c].tag \in EncodedIds
       /\ call[c].tag \in responded
       /\ call[c].tag \notin correlation_ids

\* C16 (as claimed): a response decode returns is of the type of the api key
\* recorded in the entry removed for the frame's correlation id, decoded at the
\* api version recorded there, and of the variant of the request registered
\* under that id.
C16_ResponseDecodedAsRecorded ==
    [][ (Consumes /\ ReadyEntryFound /\ decoded'.some)
          => /\ decoded'.kind = ReadyKey
             /\ decoded'.version = requests[ReadyId].request_api_version
             /\ \A c \in Calls :
                  (call[c].pc = "sent" /\ call[c].tag = ReadyId)
                  => decoded'.kind = call[c].kind ]_vars

\* C17 (as claimed): once a caller has abandoned a call whose response has not
\* arrived, the call's correlation id is not in the in-flight set and the
\* pending table has no entry for it.
C17_AbandonReleasesIdAndEntry ==
    \A c \in Calls :
       call[c].pc = "abandoned"
       => (call[c].tag \notin correlation_ids /\ call[c].tag \notin DOMAIN requests)

\* C18: every key of the pending request table is in the in-flight id set, in
\* every reachable state: also after an encode that failed, after a decode that
\* failed and after the counter has wrapped around.
C18_TableKeysInFlight == DOMAIN requests \subseteq correlation_ids

\* C18 witness: the counter has wrapped around, the id after the wraparound has
\* an entry in the table, a response frame was taken and the multiplexer has
\* ended on a failed encode or decode.
C18_WrappedAndFailedWitness ==
    /\ id_gen < 0
    /\ MinI32 \in DOMAIN requests
    /\ responded # {}
    /\ worker = "failed"

\* C19: decode removes the entry of the frame's correlation id before it
\* decodes the body. When it returns an error for a frame whose response header
\* was read and whose id had an entry, the entry is gone, no item is returned,
\* so finish_tag does not run for the id and the id is still in the in-flight
\* set; and once the multiplexer has ended, an id whose frame was taken and
\* that is still in flight stays in flight, without an entry.
C19_DecodeErrorLeaksId ==
    [][ /\ (Consumes /\ ReadyEntryFound /\ worker' = "failed")
           => /\ ReadyId \notin DOMAIN requests'
              /\ ReadyId \in responded'
              /\ ReadyId \in correlation_ids'
              /\ ~decoded'.some
        /\ worker # "running"
           => \A id \in responded \cap correlation_ids :
                 id \in correlation_ids' /\ id \notin DOMAIN requests' ]_vars

\* C19 witness: decode has failed on the response of a call after removing its
\* entry, no encode having failed; the call's id is in flight without an entry
\* and the caller has been given the failure.
C19_LeakedIdWitness ==
    /\ worker = "failed"
    /\ \A c \in Calls : call[c].pc # "rejected"
    /\ \E c \in Calls :
          /\ call[c].pc = "aborted"
          /\ call[c].tag \in responded
          /\ call[c].tag \in correlation_ids
          /\ call[c].tag \notin DOMAIN requests

====
